---- MODULE Spec2Model ----
(***************************************************************************)
(* A model of package errbag (toolman.org/base/errors/errbag): the         *)
(* ErrorBag collector, its identity-aware insertion (add / Merge), the     *)
(* folding of "others" (stash), and the deferred ErrorFuncs run by Return. *)
(*                                                                         *)
(* Every *ErrorBag is an element of BagIds; a nil *ErrorBag is NoBag.      *)
(* The fields of an ErrorBag are the functions errs, wrapper and defers.   *)
(* An error value is a record [kind, id, d]:                               *)
(*   kind = "nil"    the nil error                                         *)
(*   kind = "plain"  errors.New / fmt.Errorf value number id               *)
(*   kind = "tagged" &myError{plain id} (the test's wrapping error type)   *)
(*   kind = "bag"    a value that reduces, through errBag(), to ErrorBag   *)
(*                   id; d is the number of embedding levels around it     *)
(*                   (0: *ErrorBag, 1: *myErrorBag, 2: *otherThing, ...)   *)
(***************************************************************************)
EXTENDS Integers, Sequences, FiniteSets, TLC

\* ---------------------------------------------------------------- bounds
NumBags   == 3    \* size of the pool of ErrorBag instances
NumErrs   == 3    \* distinct plain error values
MaxDepth  == 1    \* embedding levels of the types that embed an ErrorBag
MaxExtras == 2    \* longest "others"/"errors" variadic list explored
MaxDefers == 2    \* longest defers slice a behaviour starts with
MaxWork   == 3    \* calls made plus variadic values passed, per behaviour

\* ---------------------------------------------------------------- values
BagIds == 1 .. NumBags
NoBag  == 0

Nil        == [kind |-> "nil", id |-> 0, d |-> 0]
Plain(n)   == [kind |-> "plain", id |-> n, d |-> 0]
Tagged(n)  == [kind |-> "tagged", id |-> n, d |-> 0]
BagVal(b, k) == [kind |-> "bag", id |-> b, d |-> k]

PlainErrs == {Plain(n) : n \in 1 .. NumErrs}

\* ErrorBag values the caller can hold: every instance, seen directly or
\* through a type that embeds it.
BagVals(S) == {BagVal(b, k) : b \in S, k \in 0 .. MaxDepth}

\* An ErrorFunc returning the fixed value r.
ErrorFunc(r) == [kind |-> "func", ret |-> r]
\* A nil ErrorFunc, and a value that is neither error nor ErrorFunc.
NilFunc == [kind |-> "nilfunc"]
Junk    == [kind |-> "junk"]

\* AsErrorBag reduces err to its base ErrorBag, NoBag if it has none.
AsErrorBag(err) ==
    IF err # Nil /\ err.kind = "bag" THEN err.id ELSE NoBag

\* ---------------------------------------------------------------- state
VARIABLES
    alloc,    \* the ErrorBag instances that exist
    errs,     \* errs[b]: the errs slice of instance b
    wrapper,  \* wrapper[b]: the installed ErrorWrapper
    defers,   \* defers[b]: the defers slice
    dcount,   \* dcount[b][i]: times Return has invoked defers[b][i]
    last,     \* the last operation: name, receiver, arguments, result, calls
    status,   \* "ok", or "overflow" once a call recursed without end
    steps,    \* work done: calls made plus variadic values passed
    inserted  \* inserted[b]: the errors of b in the order they were appended

vars == <<alloc, errs, wrapper, defers, dcount, last, status, steps, inserted>>

\* inserted after a call: what the call appended to the errs of an instance
\* is appended to its inserted.
Appended ==
    [b \in BagIds |-> inserted[b] \o SubSeq(errs'[b], Len(errs[b]) + 1, Len(errs'[b]))]

NoWrapper  == [kind |-> "none", val |-> Nil]
TagWrapper == [kind |-> "tag", val |-> Nil]
ConstWrapper(v) == [kind |-> "const", val |-> v]

\* ---------------------------------------------------------------- add, Merge
Ok(out)   == [ok |-> TRUE, out |-> out]
Overflow  == [ok |-> FALSE, out |-> <<>>]

RECURSIVE add(_, _, _, _), Merge(_, _, _, _), MergeLoop(_, _, _, _, _)

\* eb.add(err): the errors appended to eb.errs, or Overflow when the
\* recursion through Merge never returns.  es is the errs of every instance;
\* path is the set of instances whose errs an enclosing Merge is ranging over.
add(es, eb, err, path) ==
    IF err = Nil THEN Ok(<<>>)
    ELSE IF AsErrorBag(err) # NoBag THEN Merge(es, eb, AsErrorBag(err), path)
    ELSE Ok(<<err>>)

\* Merge without its eb != oeb test.
MergeNoIdentity(es, eb, oeb, path) ==
    IF oeb = NoBag THEN Ok(<<>>)
    ELSE IF oeb \in path THEN Overflow
    ELSE MergeLoop(es, eb, es[oeb], 1, path \cup {oeb})

\* eb.Merge(oeb)
Merge(es, eb, oeb, path) ==
    IF oeb = NoBag THEN Ok(<<>>)
    ELSE IF eb # oeb
         THEN IF oeb \in path THEN Overflow
              ELSE MergeLoop(es, eb, es[oeb], 1, path \cup {oeb})
         ELSE Ok(<<>>)

\* for _, err := range oeb.errs { eb.add(err) }
MergeLoop(es, eb, list, i, path) ==
    IF i > Len(list) THEN Ok(<<>>)
    ELSE LET a == add(es, eb, list[i], path)
         IN  IF ~a.ok THEN Overflow
             ELSE LET r == MergeLoop(es, eb, list, i + 1, path)
                  IN  IF r.ok THEN Ok(a.out \o r.out) ELSE Overflow

\* ErrorOrNil returning nil whatever eb holds.
ErrorOrNilNever(es, eb) == Nil

\* ErrorOrNil without its len(eb.errs) == 0 test.
ErrorOrNilAlways(es, eb) ==
    IF eb = NoBag THEN Nil ELSE BagVal(eb, 0)

\* eb.ErrorOrNil() as an error value
ErrorOrNil(es, eb) ==
    IF eb = NoBag \/ Len(es[eb]) = 0 THEN Nil ELSE BagVal(eb, 0)

\* ---------------------------------------------------------------- Error
\* The strings Error() returns: "", the message of errors.New value number n
\* (the single letters "a", "b", ...), and "encountered n errors".
EmptyText == [t |-> "empty", n |-> 0]
Msg(n)    == [t |-> "msg", n |-> n]
Count(n)  == [t |-> "count", n |-> n]

\* s < t on these strings: "" before the letters "a" .. "d", these before
\* "encountered n errors", and the latter by n (n below 10).
TextRank(s) == IF s.t = "empty" THEN 0 ELSE IF s.t = "msg" THEN 1 ELSE 2
TextLess(s, t) ==
    \/ TextRank(s) < TextRank(t)
    \/ TextRank(s) = TextRank(t) /\ s.n < t.n

RECURSIVE ErrText(_, _, _), BagText(_, _, _), BagTextFirst(_, _, _)

\* err.Error(): a myError answers with the Error of the error it embeds, a
\* type embedding an ErrorBag with ErrorBag.Error.  ok is FALSE when the
\* call recurses without end.
ErrText(es, err, path) ==
    IF err.kind \in {"plain", "tagged"} THEN [ok |-> TRUE, text |-> Msg(err.id)]
    ELSE BagText(es, err.id, path)

\* Error answering with its first error's text whenever it holds one.
BagTextFirst(es, eb, path) ==
    IF Len(es[eb]) >= 1
    THEN IF eb \in path THEN [ok |-> FALSE, text |-> EmptyText]
         ELSE ErrText(es, es[eb][1], path \cup {eb})
    ELSE [ok |-> TRUE, text |-> EmptyText]

\* func (eb *ErrorBag) Error() string
BagText(es, eb, path) ==
    IF Len(es[eb]) = 1
    THEN IF eb \in path THEN [ok |-> FALSE, text |-> EmptyText]
         ELSE ErrText(es, es[eb][1], path \cup {eb})
    ELSE IF Len(es[eb]) > 1 THEN [ok |-> TRUE, text |-> Count(Len(es[eb]))]
    ELSE [ok |-> TRUE, text |-> EmptyText]

\* ---------------------------------------------------------------- Sorted
\* The less function Sorted hands to sort.Slice.
Less(es, x, y) == TextLess(ErrText(es, x, {}).text, ErrText(es, y, {}).text)

Swap(l, i, j) == [l EXCEPT ![i] = l[j], ![j] = l[i]]

\* sort.Slice on a slice of up to 12 elements is an insertion sort, which up
\* to Go 1.18 follows one pass swapping the out-of-order elements that are
\* ShellGap apart.
ShellGap == 6

RECURSIVE Sink(_, _, _), InsertionSort(_, _, _), ShellPass(_, _, _)

Sink(es, l, j) ==
    IF j > 1 /\ Less(es, l[j], l[j - 1]) THEN Sink(es, Swap(l, j, j - 1), j - 1) ELSE l

InsertionSort(es, l, i) ==
    IF i > Len(l) THEN l ELSE InsertionSort(es, Sink(es, l, i), i + 1)

ShellPass(es, l, i) ==
    IF i > Len(l) THEN l
    ELSE ShellPass(es, IF Less(es, l[i], l[i - ShellGap])
                       THEN Swap(l, i, i - ShellGap) ELSE l, i + 1)

\* sort.Slice(l, less): what the toolchains leave in l.
SortSlice(es, l) ==
    {InsertionSort(es, l, 2), InsertionSort(es, ShellPass(es, l, ShellGap + 1), 2)}

\* ---------------------------------------------------------------- stash
Call(src, f, r) == [src |-> src, f |-> f, ret |-> r]

RECURSIVE stash(_, _, _, _), stashLenient(_, _, _, _)

\* stash skipping what is neither an error nor an ErrorFunc.
stashLenient(es, eb, items, i) ==
    IF i > Len(items) THEN [end |-> "ok", out |-> <<>>, calls |-> <<>>]
    ELSE LET it == items[i]
             isFunc == it.kind = "func"
             a == IF isFunc THEN add(es, eb, it.ret, {})
                  ELSE IF it.kind \in {"junk", "nilfunc"} THEN Ok(<<>>)
                  ELSE add(es, eb, it, {})
             c == IF isFunc THEN <<Call("extra", it, it.ret)>> ELSE <<>>
         IN  IF ~a.ok
             THEN [end |-> "overflow", out |-> <<>>, calls |-> c]
             ELSE LET r == stashLenient(es, eb, items, i + 1)
                  IN  [end |-> r.end, out |-> a.out \o r.out, calls |-> c \o r.calls]

\* eb.stash(items...) from item i on: end is "ok", "panic" (an item that is
\* neither error nor ErrorFunc) or "overflow"; out are the errors appended
\* before the end, calls the ErrorFuncs invoked.
stash(es, eb, items, i) ==
    IF i > Len(items) THEN [end |-> "ok", out |-> <<>>, calls |-> <<>>]
    ELSE LET it == items[i]
             isFunc == it.kind = "func"
             a == IF isFunc THEN add(es, eb, it.ret, {})
                  ELSE IF it.kind \in {"junk", "nilfunc"} THEN Ok(<<>>)
                  ELSE add(es, eb, it, {})
             c == IF isFunc THEN <<Call("extra", it, it.ret)>> ELSE <<>>
         IN  IF it.kind = "junk"
             THEN [end |-> "panic", out |-> <<>>, calls |-> <<>>]
             ELSE IF ~a.ok
             THEN [end |-> "overflow", out |-> <<>>, calls |-> c]
             ELSE LET r == stash(es, eb, items, i + 1)
                  IN  [end |-> r.end, out |-> a.out \o r.out, calls |-> c \o r.calls]

\* ---------------------------------------------------------------- Wrap
\* The test's WrapError tagging what is tagged already once more.
WrapErrorAlways(w, err) ==
    IF w.kind = "tag"
    THEN IF err.kind = "tagged" THEN [err EXCEPT !.d = @ + 1] ELSE Tagged(err.id)
    ELSE w.val

\* wrapper.WrapError(err) for the wrappers modelled: the test's, which
\* tags an error unless it is tagged already, and one returning a fixed value.
WrapError(w, err) ==
    IF w.kind = "tag"
    THEN IF err.kind = "tagged" THEN err ELSE Tagged(err.id)
    ELSE w.val

Done(end, out, calls) == [end |-> end, out |-> out, calls |-> calls]

RECURSIVE wrap(_, _, _, _, _), VisitWrap(_, _, _, _, _, _)

\* eb.Wrap(err) with eb.wrapper = w: the errors appended to eb.errs and the
\* WrapError calls made.
wrap(es, eb, w, err, path) ==
    IF err = Nil THEN Done("ok", <<>>, <<>>)
    ELSE IF w.kind = "none"
    THEN LET a == add(es, eb, err, {})
         IN  IF a.ok THEN Done("ok", a.out, <<>>) ELSE Done("overflow", <<>>, <<>>)
    ELSE IF AsErrorBag(err) # NoBag
    THEN IF AsErrorBag(err) = eb THEN Done("ok", <<>>, <<>>)
         ELSE IF AsErrorBag(err) \in path THEN Done("overflow", <<>>, <<>>)
         ELSE VisitWrap(es, eb, w, es[AsErrorBag(err)], 1, path \cup {AsErrorBag(err)})
    ELSE LET r == WrapError(w, err)
             a == add(es, eb, r, {})
             c == <<Call("wrap", err, r)>>
         IN  IF a.ok THEN Done("ok", a.out, c) ELSE Done("overflow", <<>>, c)

\* oeb.Visit(func(err error) { eb.Wrap(err) })
VisitWrap(es, eb, w, list, i, path) ==
    IF i > Len(list) THEN Done("ok", <<>>, <<>>)
    ELSE LET a == wrap(es, eb, w, list[i], path)
         IN  IF a.end # "ok" THEN a
             ELSE LET r == VisitWrap(es, eb, w, list, i + 1, path)
                  IN  Done(r.end, a.out \o r.out, a.calls \o r.calls)

\* ---------------------------------------------------------------- inputs
\* What an ErrorFunc may return: nothing, an error, or an ErrorBag.
FuncRets == {Nil, Plain(1)} \cup {BagVal(b, 0) : b \in alloc}
Funcs    == {ErrorFunc(r) : r \in FuncRets}

\* The error arguments a caller passes.
ErrArgs == {Nil} \cup PlainErrs \cup BagVals(alloc)

\* The values a caller passes in a variadic ...interface{} list: nil, errors,
\* ErrorBags, ErrorFuncs, and what is neither an error nor an ErrorFunc.
Items == {Nil} \cup PlainErrs \cup {BagVal(b, 0) : b \in alloc}
            \cup Funcs \cup {NilFunc, Junk}

SeqsUpTo(S, n) == UNION {[1 .. k -> S] : k \in 0 .. n}

\* The variadic lists the remaining work allows.
ItemLists == SeqsUpTo(Items, IF MaxWork - steps - 1 < MaxExtras
                             THEN MaxWork - steps - 1 ELSE MaxExtras)
ErrLists  == SeqsUpTo(ErrArgs, IF MaxWork - steps - 1 < MaxExtras
                               THEN MaxWork - steps - 1 ELSE MaxExtras)

\* new(ErrorBag): the instance a fresh allocation yields.
Fresh == CHOOSE b \in BagIds \ alloc : \A c \in BagIds \ alloc : b <= c

Op(name, rcv, eb, err, items, ret, end, pre, calls) ==
    [name |-> name, rcv |-> rcv, eb |-> eb, err |-> err, items |-> items,
     ret |-> ret, end |-> end, pre |-> pre, calls |-> calls]

\* The status after a call that ended with end.
After(end) == IF end = "overflow" THEN "overflow" ELSE "ok"

\* A call is made while the program runs and the work bound allows it.
CanCall(n) == status = "ok" /\ steps + 1 + n <= MaxWork

\* ---------------------------------------------------------------- operations
\* The body of Add folding errors before it adds err.
AddExtrasFirst(es, eb, err, items) ==
    LET a == add(es, eb, err, {})
        s == stash(es, eb, items, 1)
    IN  IF ~a.ok THEN Done("overflow", <<>>, <<>>)
        ELSE Done(s.end, s.out \o a.out, s.calls)

\* The body of Add below its err == nil test, on instance eb: eb.add(err)
\* then eb.stash(errors...).
AddBody(es, eb, err, items) ==
    LET a == add(es, eb, err, {})
        s == stash(es, eb, items, 1)
    IN  IF ~a.ok THEN Done("overflow", <<>>, <<>>)
        ELSE Done(s.end, a.out \o s.out, s.calls)

\* func (eb *ErrorBag) Add(err error, errors ...interface{}) error
Add(rcv, err, items) ==
    /\ CanCall(Len(items))
    /\ rcv \in alloc \cup {NoBag}
    /\ IF err = Nil
       THEN /\ last' = Op("Add", rcv, rcv, err, items, ErrorOrNil(errs, rcv), "ok",
                          IF rcv = NoBag THEN <<>> ELSE errs[rcv], <<>>)
            /\ UNCHANGED <<alloc, errs, status>>
       ELSE /\ rcv = NoBag => alloc # BagIds
            /\ LET eb == IF rcv = NoBag THEN Fresh ELSE rcv
                   r  == AddBody(errs, eb, err, items)
                   es == [errs EXCEPT ![eb] = @ \o r.out]
               IN  /\ alloc' = alloc \cup {eb}
                   /\ errs' = es
                   /\ status' = After(r.end)
                   /\ last' = Op("Add", rcv, eb, err, items,
                                 IF r.end = "ok" THEN ErrorOrNil(es, eb) ELSE Nil,
                                 r.end, errs[eb], r.calls)
    /\ steps' = steps + 1 + Len(items)
    /\ UNCHANGED <<wrapper, defers, dcount>>
    /\ inserted' = Appended

\* func (eb *ErrorBag) Errorf(msg string, a ...interface{}) error
Errorf(eb, n) ==
    /\ CanCall(0)
    /\ eb \in alloc
    /\ LET r  == AddBody(errs, eb, Plain(n), <<>>)
           es == [errs EXCEPT ![eb] = @ \o r.out]
       IN  /\ errs' = es
           /\ last' = Op("Errorf", eb, eb, Plain(n), <<>>, ErrorOrNil(es, eb),
                         r.end, errs[eb], r.calls)
    /\ steps' = steps + 1
    /\ UNCHANGED <<alloc, wrapper, defers, dcount, status>>
    /\ inserted' = Appended

\* func (eb *ErrorBag) Merge(oeb *ErrorBag) error
MergeOp(eb, oeb) ==
    /\ CanCall(0)
    /\ eb \in alloc /\ oeb \in alloc \cup {NoBag}
    /\ LET r == Merge(errs, eb, oeb, {})
       IN  /\ errs' = [errs EXCEPT ![eb] = @ \o r.out]
           /\ status' = IF r.ok THEN "ok" ELSE "overflow"
           /\ last' = Op("Merge", eb, eb, IF oeb = NoBag THEN Nil ELSE BagVal(oeb, 0),
                         <<>>, IF r.ok THEN BagVal(eb, 0) ELSE Nil,
                         IF r.ok THEN "ok" ELSE "overflow", errs[eb], <<>>)
    /\ steps' = steps + 1
    /\ UNCHANGED <<alloc, wrapper, defers, dcount>>
    /\ inserted' = Appended

\* func (eb *ErrorBag) Update(errs []error) error
Update(eb, list) ==
    /\ CanCall(Len(list))
    /\ eb \in alloc
    /\ LET r == MergeLoop(errs, eb, list, 1, {})
       IN  /\ errs' = [errs EXCEPT ![eb] = @ \o r.out]
           /\ status' = IF r.ok THEN "ok" ELSE "overflow"
           /\ last' = Op("Update", eb, eb, Nil, list,
                         IF r.ok THEN BagVal(eb, 0) ELSE Nil,
                         IF r.ok THEN "ok" ELSE "overflow", errs[eb], <<>>)
    /\ steps' = steps + 1 + Len(list)
    /\ UNCHANGED <<alloc, wrapper, defers, dcount>>
    /\ inserted' = Appended

\* The body of New folding others before it stores err.
NewOthersFirst(es, eb, err, items) ==
    LET s == stash(es, eb, items, 1)
    IN  IF AsErrorBag(err) = NoBag
        THEN Done(s.end, s.out \o <<err>>, s.calls)
        ELSE s

\* The body of New below its err == nil test: the instance is AsErrorBag(err)
\* or a fresh one holding err, and then eb.stash(others...).
NewBody(es, eb, err, items) ==
    LET s == stash(es, eb, items, 1)
    IN  IF AsErrorBag(err) = NoBag
        THEN Done(s.end, <<err>> \o s.out, s.calls)
        ELSE s

\* New folding others whether or not err is nil.
NewAlways(err, items) ==
    /\ CanCall(Len(items))
    /\ alloc # BagIds
    /\ LET eb == IF AsErrorBag(err) = NoBag THEN Fresh ELSE AsErrorBag(err)
           s  == stash(errs, eb, items, 1)
           r  == Done(s.end, (IF err = Nil \/ AsErrorBag(err) # NoBag
                              THEN <<>> ELSE <<err>>) \o s.out, s.calls)
           es == [errs EXCEPT ![eb] = @ \o r.out]
       IN  /\ alloc' = alloc \cup {eb}
           /\ errs' = es
           /\ status' = After(r.end)
           /\ last' = Op("New", NoBag, eb, err, items,
                         IF r.end = "ok" THEN ErrorOrNil(es, eb) ELSE Nil,
                         r.end, errs[eb], r.calls)
    /\ steps' = steps + 1 + Len(items)
    /\ UNCHANGED <<wrapper, defers, dcount>>
    /\ inserted' = Appended

\* func New(err error, others ...interface{}) *ErrorBag
New(err, items) ==
    /\ CanCall(Len(items))
    /\ IF err = Nil
       THEN /\ last' = Op("New", NoBag, NoBag, err, items, Nil, "ok", <<>>, <<>>)
            /\ UNCHANGED <<alloc, errs, status>>
       ELSE /\ AsErrorBag(err) = NoBag => alloc # BagIds
            /\ LET eb == IF AsErrorBag(err) = NoBag THEN Fresh ELSE AsErrorBag(err)
                   r  == NewBody(errs, eb, err, items)
               IN  /\ alloc' = alloc \cup {eb}
                   /\ errs' = [errs EXCEPT ![eb] = @ \o r.out]
                   /\ status' = After(r.end)
                   /\ last' = Op("New", NoBag, eb, err, items,
                                 IF r.end = "ok" THEN BagVal(eb, 0) ELSE Nil,
                                 r.end, errs[eb], r.calls)
    /\ steps' = steps + 1 + Len(items)
    /\ UNCHANGED <<wrapper, defers, dcount>>
    /\ inserted' = Appended

\* func (eb *ErrorBag) ErrorWrapper(wrapper ErrorWrapper)
ErrorWrapper(eb, w) ==
    /\ CanCall(0)
    /\ eb \in alloc
    /\ wrapper' = [wrapper EXCEPT ![eb] = w]
    /\ last' = Op("ErrorWrapper", eb, eb, Nil, <<>>, Nil, "ok", errs[eb], <<>>)
    /\ steps' = steps + 1
    /\ UNCHANGED <<alloc, errs, defers, dcount, status, inserted>>

\* Wrap returning its receiver on every path.
WrapReturnsReceiver(eb, err) ==
    /\ CanCall(0)
    /\ eb \in alloc
    /\ LET r  == wrap(errs, eb, wrapper[eb], err, {})
           es == [errs EXCEPT ![eb] = @ \o r.out]
       IN  /\ errs' = es
           /\ status' = After(r.end)
           /\ last' = Op("Wrap", eb, eb, err, <<>>,
                         IF r.end # "ok" THEN Nil ELSE BagVal(eb, 0),
                         r.end, errs[eb], r.calls)
    /\ steps' = steps + 1
    /\ UNCHANGED <<alloc, wrapper, defers, dcount>>
    /\ inserted' = Appended

\* func (eb *ErrorBag) Wrap(err error) error
Wrap(eb, err) ==
    /\ CanCall(0)
    /\ eb \in alloc
    /\ LET r  == wrap(errs, eb, wrapper[eb], err, {})
           es == [errs EXCEPT ![eb] = @ \o r.out]
           viaAdd == err # Nil /\ (wrapper[eb].kind = "none" \/ AsErrorBag(err) = NoBag)
       IN  /\ errs' = es
           /\ status' = After(r.end)
           /\ last' = Op("Wrap", eb, eb, err, <<>>,
                         IF r.end # "ok" THEN Nil
                         ELSE IF viaAdd THEN ErrorOrNil(es, eb) ELSE BagVal(eb, 0),
                         r.end, errs[eb], r.calls)
    /\ steps' = steps + 1
    /\ UNCHANGED <<alloc, wrapper, defers, dcount>>
    /\ inserted' = Appended

\* Defer invoking ef at registration time.
DeferEager(eb, ef) ==
    /\ CanCall(0)
    /\ eb \in alloc
    /\ defers' = [defers EXCEPT ![eb] = Append(@, ef)]
    /\ dcount' = [dcount EXCEPT ![eb] = Append(@, 1)]
    /\ errs' = [errs EXCEPT ![eb] = @ \o (IF ef.ret # Nil THEN <<ef.ret>> ELSE <<>>)]
    /\ last' = Op("Defer", eb, eb, Nil, <<ef>>, Nil, "ok", errs[eb],
                  <<Call("defer", ef, ef.ret)>>)
    /\ steps' = steps + 1
    /\ UNCHANGED <<alloc, wrapper, status>>
    /\ inserted' = Appended

\* func (eb *ErrorBag) Defer(ef ErrorFunc)
Defer(eb, ef) ==
    /\ CanCall(0)
    /\ eb \in alloc
    /\ defers' = [defers EXCEPT ![eb] = Append(@, ef)]
    /\ dcount' = [dcount EXCEPT ![eb] = Append(@, 0)]
    /\ last' = Op("Defer", eb, eb, Nil, <<ef>>, Nil, "ok", errs[eb], <<>>)
    /\ steps' = steps + 1
    /\ UNCHANGED <<alloc, errs, wrapper, status, inserted>>

RECURSIVE RunDefers(_, _), RunDefersUntilError(_, _)

\* The defers loop breaking at the first failure.
RunDefersUntilError(ds, i) ==
    IF i > Len(ds) THEN Done("ok", <<>>, <<>>)
    ELSE LET e == ds[i].ret
             c == <<Call("defer", ds[i], e)>>
         IN  IF e # Nil THEN Done("ok", <<e>>, c)
             ELSE LET r == RunDefersUntilError(ds, i + 1)
                  IN  Done("ok", r.out, c \o r.calls)

\* for _, df := range eb.defers { if err := df(); err != nil { append } }
RunDefers(ds, i) ==
    IF i > Len(ds) THEN Done("ok", <<>>, <<>>)
    ELSE LET r == RunDefers(ds, i + 1)
             e == ds[i].ret
         IN  Done("ok", (IF e # Nil THEN <<e>> ELSE <<>>) \o r.out,
                  <<Call("defer", ds[i], e)>> \o r.calls)

\* Return running the defers before it folds errors.
ReturnDefersFirst(es, eb, items, ds) ==
    LET s == stash(es, eb, items, 1)
        d == RunDefers(ds, 1)
    IN  IF s.end # "ok" THEN s
        ELSE Done("ok", d.out \o s.out, d.calls \o s.calls)

\* The body of Return: eb.stash(errors...), then the defers.
ReturnBody(es, eb, items, ds) ==
    LET s == stash(es, eb, items, 1)
        d == RunDefers(ds, 1)
    IN  IF s.end # "ok" THEN s
        ELSE Done("ok", s.out \o d.out, s.calls \o d.calls)

\* func (eb *ErrorBag) Return(errors ...interface{}) error
Return(eb, items) ==
    /\ CanCall(Len(items))
    /\ eb \in alloc
    /\ LET r  == ReturnBody(errs, eb, items, defers[eb])
           es == [errs EXCEPT ![eb] = @ \o r.out]
       IN  /\ errs' = es
           /\ dcount' = IF r.end = "ok"
                        THEN [dcount EXCEPT ![eb] = [i \in DOMAIN @ |-> @[i] + 1]]
                        ELSE dcount
           /\ status' = After(r.end)
           /\ last' = Op("Return", eb, eb, Nil, items,
                         IF r.end = "ok" THEN ErrorOrNil(es, eb) ELSE Nil,
                         r.end, errs[eb], r.calls)
    /\ steps' = steps + 1 + Len(items)
    /\ UNCHANGED <<alloc, wrapper, defers>>
    /\ inserted' = Appended

\* func (eb *ErrorBag) ErrorOrNil() error
ErrorOrNilOp(rcv) ==
    /\ CanCall(0)
    /\ rcv \in alloc \cup {NoBag}
    /\ last' = Op("ErrorOrNil", rcv, rcv, Nil, <<>>, ErrorOrNil(errs, rcv), "ok",
                  IF rcv = NoBag THEN <<>> ELSE errs[rcv], <<>>)
    /\ steps' = steps + 1
    /\ UNCHANGED <<alloc, errs, wrapper, defers, dcount, status, inserted>>

\* func (eb *ErrorBag) Error() string
ErrorOp(eb) ==
    /\ CanCall(0)
    /\ eb \in alloc
    /\ LET r == BagText(errs, eb, {})
       IN  /\ status' = IF r.ok THEN "ok" ELSE "overflow"
           /\ last' = Op("Error", eb, eb, Nil, <<>>, r.text,
                         IF r.ok THEN "ok" ELSE "overflow", errs[eb], <<>>)
    /\ steps' = steps + 1
    /\ UNCHANGED <<alloc, errs, wrapper, defers, dcount, inserted>>

\* for _, err := range eb.errs { v(err) }: the calls of the Visitor.
VisitCalls(list) == [i \in DOMAIN list |-> Call("visit", list[i], Nil)]

\* func (eb *ErrorBag) Visit(v Visitor)
VisitOp(eb) ==
    /\ CanCall(0)
    /\ eb \in alloc
    /\ last' = Op("Visit", eb, eb, Nil, <<>>, Nil, "ok", errs[eb], VisitCalls(errs[eb]))
    /\ steps' = steps + 1
    /\ UNCHANGED <<alloc, errs, wrapper, defers, dcount, status, inserted>>

\* func Visit(err error, v Visitor)
VisitErr(err) ==
    /\ CanCall(0)
    /\ LET eb == AsErrorBag(err)
       IN  last' = Op("Visit", NoBag, eb, err, <<>>, Nil, "ok",
                      IF eb = NoBag THEN <<>> ELSE errs[eb],
                      IF eb = NoBag THEN <<>> ELSE VisitCalls(errs[eb]))
    /\ steps' = steps + 1
    /\ UNCHANGED <<alloc, errs, wrapper, defers, dcount, status, inserted>>

\* func (eb *ErrorBag) Sorted() []error: errs is eb.Errors(), the slice
\* eb.errs itself, and sort.Slice sorts it in place.  less calls Error() on
\* every element once there are two.
Sorted(eb) ==
    /\ CanCall(0)
    /\ eb \in alloc
    /\ LET l == errs[eb]
           diverges == Len(l) > 1 /\ \E i \in DOMAIN l : ~ErrText(errs, l[i], {}).ok
       IN  IF diverges
           THEN /\ errs' = errs
                /\ status' = "overflow"
                /\ last' = Op("Sorted", eb, eb, Nil, <<>>, <<>>, "overflow", l, <<>>)
           ELSE \E out \in SortSlice(errs, l) :
                   /\ errs' = [errs EXCEPT ![eb] = out]
                   /\ status' = "ok"
                   /\ last' = Op("Sorted", eb, eb, Nil, <<>>, out, "ok", l, <<>>)
    /\ steps' = steps + 1
    /\ UNCHANGED <<alloc, wrapper, defers, dcount, inserted>>

\* ---------------------------------------------------------------- behaviours
\* Instances made with new(ErrorBag), and none used yet.
Init ==
    /\ alloc = BagIds \ {NumBags}
    /\ errs = [b \in BagIds |-> <<>>]
    /\ wrapper = [b \in BagIds |-> NoWrapper]
    /\ defers = [b \in BagIds |-> <<>>]
    /\ dcount = [b \in BagIds |-> <<>>]
    /\ last = Op("init", NoBag, NoBag, Nil, <<>>, Nil, "ok", <<>>, <<>>)
    /\ status = "ok"
    /\ steps = 0
    /\ inserted = errs

Next ==
    \/ \E rcv \in alloc \cup {NoBag}, err \in ErrArgs, items \in ItemLists :
          Add(rcv, err, items)
    \/ \E eb \in alloc, n \in 1 .. NumErrs : Errorf(eb, n)
    \/ \E eb \in alloc, oeb \in alloc \cup {NoBag} : MergeOp(eb, oeb)
    \/ \E eb \in alloc, list \in ErrLists : Update(eb, list)
    \/ \E err \in ErrArgs, items \in ItemLists : New(err, items)
    \/ \E eb \in alloc, w \in {NoWrapper, TagWrapper} : ErrorWrapper(eb, w)
    \/ \E eb \in alloc, err \in ErrArgs \cup {Tagged(1)} : Wrap(eb, err)
    \/ \E eb \in alloc, ef \in Funcs : Defer(eb, ef)
    \/ \E eb \in alloc, items \in ItemLists : Return(eb, items)

Spec == Init /\ [][Next]_vars

\* Behaviours that start from instances already in use: instance 1 holds up
\* to one error and up to MaxDefers deferred ErrorFuncs (returning nil, an
\* error or the instance), the others hold two errors, all put there by Add
\* and Defer; then instance 1 is returned.
InitReturn ==
    /\ alloc = BagIds \ {NumBags}
    /\ \E e \in {<<>>, <<Plain(1)>>},
          ds \in SeqsUpTo({ErrorFunc(Nil), ErrorFunc(Plain(1)), ErrorFunc(BagVal(1, 0))},
                          MaxDefers) :
          /\ errs = [b \in BagIds |->
                        IF b = 1 THEN e
                        ELSE IF b # NumBags THEN <<Plain(NumErrs), Plain(1)>>
                        ELSE <<>>]
          /\ defers = [b \in BagIds |-> IF b = 1 THEN ds ELSE <<>>]
          /\ dcount = [b \in BagIds |-> IF b = 1 THEN [i \in DOMAIN ds |-> 0] ELSE <<>>]
    /\ wrapper = [b \in BagIds |-> NoWrapper]
    /\ last = Op("init", NoBag, NoBag, Nil, <<>>, Nil, "ok", <<>>, <<>>)
    /\ status = "ok"
    /\ steps = 0
    /\ inserted = errs

NextReturn == \E items \in ItemLists : Return(1, items)

SpecReturn == InitReturn /\ [][NextReturn]_vars

\* Behaviours in which instance 1, in use, is returned and is added to itself,
\* directly or through the types that embed it.
NextSelf ==
    \/ Return(1, <<>>)
    \/ \E err \in BagVals({1}), items \in SeqsUpTo(BagVals({1}), MaxExtras) :
          Add(1, err, items)

SpecSelf == InitReturn /\ [][NextSelf]_vars

\* Behaviours in which instance 1, in use, is returned with at most one value
\* and ErrorOrNil is called on it and on a nil *ErrorBag.
NextOrNil ==
    \/ \E items \in ItemLists : Len(items) <= 1 /\ Return(1, items)
    \/ \E rcv \in {1, NoBag} : ErrorOrNilOp(rcv)

SpecOrNil == InitReturn /\ [][NextOrNil]_vars

\* The errors instance 1 is filled with: the plain errors and a myError with
\* the message of one of them.
StoredErrs == PlainErrs \cup {Tagged(NumErrs)}

\* Behaviours that read a filled instance: instance 1 holds, put there by Add,
\* up to MaxStored errors, or ShellGap + 1 errors of which the third to the
\* last but one are the same; then Error, Sorted and Visit are called on it.
MaxStored == 3

InitRead ==
    /\ alloc = BagIds \ {NumBags}
    /\ \E e \in SeqsUpTo(StoredErrs, MaxStored) \cup
                 {<<x, y>> \o [i \in 1 .. ShellGap - 2 |-> m] \o <<z>> :
                      x \in StoredErrs, y \in StoredErrs, m \in StoredErrs, z \in StoredErrs} :
          errs = [b \in BagIds |-> IF b = 1 THEN e ELSE <<>>]
    /\ wrapper = [b \in BagIds |-> NoWrapper]
    /\ defers = [b \in BagIds |-> <<>>]
    /\ dcount = [b \in BagIds |-> <<>>]
    /\ last = Op("init", NoBag, NoBag, Nil, <<>>, Nil, "ok", <<>>, <<>>)
    /\ status = "ok"
    /\ steps = 0
    /\ inserted = errs

NextRead ==
    \/ ErrorOp(1)
    \/ Sorted(1)
    \/ VisitOp(1)
    \/ \E err \in {Nil, Plain(1)} \cup BagVals({1}) : VisitErr(err)

SpecRead == InitRead /\ [][NextRead]_vars

\* Behaviours of Wrap.  Instance 1, made by WithWrapper, has a wrapper: the
\* test's, or one returning nil, an error, instance 1 or instance 2.
\* Instance 2 never has one; it holds two errors and may have a pending
\* ErrorFunc returning an instance.  Wrap is called on both, the wrapper of
\* instance 1 is replaced or cleared, and instance 2 is returned.
InitWrap ==
    /\ alloc = BagIds \ {NumBags}
    /\ errs = [b \in BagIds |-> IF b = 2 THEN <<Plain(NumErrs), Tagged(1)>> ELSE <<>>]
    /\ \E w \in {TagWrapper} \cup
                 {ConstWrapper(v) : v \in {Nil, Plain(1), BagVal(1, 0), BagVal(2, 0)}},
          ds \in {<<>>, <<ErrorFunc(BagVal(1, 0))>>, <<ErrorFunc(BagVal(2, 0))>>} :
          /\ wrapper = [b \in BagIds |-> IF b = 1 THEN w ELSE NoWrapper]
          /\ defers = [b \in BagIds |-> IF b = 2 THEN ds ELSE <<>>]
          /\ dcount = [b \in BagIds |-> IF b = 2 THEN [i \in DOMAIN ds |-> 0] ELSE <<>>]
    /\ last = Op("init", NoBag, NoBag, Nil, <<>>, Nil, "ok", <<>>, <<>>)
    /\ status = "ok"
    /\ steps = 0
    /\ inserted = errs

NextWrap ==
    \/ \E err \in {Nil, Plain(1), Tagged(NumErrs)} \cup BagVals({1, 2}) : Wrap(1, err)
    \/ \E err \in {Plain(1), BagVal(1, 0), BagVal(2, 0)} : Wrap(2, err)
    \/ \E w \in {NoWrapper, TagWrapper} : ErrorWrapper(1, w)
    \/ Return(2, <<>>)

SpecWrap == InitWrap /\ [][NextWrap]_vars

\* Behaviours in which instance 1, in use, is returned, and is then rendered,
\* visited, and added, merged and wrapped into instance 2.
NextTerm ==
    \/ Return(1, <<>>)
    \/ ErrorOp(1)
    \/ VisitOp(1)
    \/ \E k \in 0 .. MaxDepth : Add(2, BagVal(1, k), <<>>)
    \/ MergeOp(2, 1)
    \/ \E k \in 0 .. MaxDepth : Wrap(2, BagVal(1, k))

SpecTerm == InitReturn /\ [][NextTerm]_vars

\* Behaviours made of calls of New alone.
NextNew == \E err \in ErrArgs, items \in ItemLists : New(err, items)

SpecNew == Init /\ [][NextNew]_vars

\* Behaviours made of the calls that take a variadic list of values: New,
\* Add on instance 1 or on a nil *ErrorBag, and Return on instance 1; err is
\* nil, an error or an *ErrorBag.
NextExtras ==
    \/ \E err \in {Nil} \cup PlainErrs \cup {BagVal(b, 0) : b \in alloc},
          items \in ItemLists : New(err, items)
    \/ \E rcv \in {1, NoBag}, err \in {Nil} \cup PlainErrs \cup {BagVal(b, 0) : b \in alloc},
          items \in ItemLists : Add(rcv, err, items)
    \/ \E items \in ItemLists : Return(1, items)

SpecExtras == Init /\ [][NextExtras]_vars

\* ================================================================ claims
Allocated(b) == b \in alloc
Range(seq) == {seq[i] : i \in DOMAIN seq}
IsDeferCall(c) == c.src = "defer"
IsExtraCall(c) == c.src = "extra"

\* C1: no collector has itself, or a value that reduces to itself through
\* AsErrorBag, among its stored errors, whatever operations were called.
C1_NeverContainsItself ==
    \A b \in alloc : \A i \in DOMAIN errs[b] : AsErrorBag(errs[b][i]) # b

\* C2: the stored sequence of every collector is flat: no stored error is
\* a collector (a value for which AsErrorBag is non-nil).
C2_StoredSequenceIsFlat ==
    \A b \in alloc : \A i \in DOMAIN errs[b] : AsErrorBag(errs[b][i]) = NoBag

\* C3: over any sequence of operations each callback registered with Defer is
\* invoked at most once in total, and exactly once when a Return has completed.
C3_DeferredInvokedOnce ==
    /\ \A b \in alloc : \A i \in DOMAIN dcount[b] : dcount[b][i] <= 1
    /\ (last.name = "Return" /\ last.end = "ok")
          => \A i \in DOMAIN dcount[last.eb] : dcount[last.eb][i] = 1

\* C4: one call of Return invokes every registered callback, in registration
\* order, whether or not earlier ones failed; with f1 failing and f2
\* succeeding on an empty collector it ends with exactly the f1 failure.
C4_ReturnRunsEveryDeferred ==
    (last.name = "Return" /\ last.end = "ok") =>
        LET ds == defers[last.eb]
        IN  /\ SelectSeq(last.calls, IsDeferCall)
                 = [i \in DOMAIN ds |-> Call("defer", ds[i], ds[i].ret)]
            /\ (/\ Len(ds) = 2 /\ ds[1].ret # Nil /\ ds[2].ret = Nil
                /\ last.pre = <<>> /\ last.items = <<>>)
                  => errs[last.eb] = <<ds[1].ret>>

C4_Witness ==
    /\ last.name = "Return" /\ last.end = "ok"
    /\ last.pre = <<>> /\ last.items = <<>>
    /\ Len(defers[last.eb]) = 2
    /\ defers[last.eb][1].ret # Nil /\ defers[last.eb][2].ret = Nil
    /\ Len(last.calls) = 2
    /\ errs[last.eb] = <<defers[last.eb][1].ret>>

\* C5: Defer only appends the callback to the pending list, invoking nothing
\* and storing nothing, and no operation but Return invokes a pending callback.
C5_OnlyReturnInvokesDeferred ==
    /\ last.name # "Return" => SelectSeq(last.calls, IsDeferCall) = <<>>
    /\ last.name = "Defer" =>
          /\ last.calls = <<>>
          /\ errs[last.eb] = last.pre
          /\ Len(defers[last.eb]) > 0
          /\ defers[last.eb][Len(defers[last.eb])] = last.items[1]
          /\ dcount[last.eb][Len(defers[last.eb])] = 0

C5_Witness ==
    /\ last.name = "Defer"
    /\ last.items[1].ret # Nil
    /\ Len(defers[last.eb]) = 2
    /\ errs[last.eb] = <<>>

\* What folding one value of the variadic list into eb stores.
Folded(eb, it) ==
    IF it.kind \in {"nilfunc", "junk"} THEN <<>>
    ELSE LET v == IF it.kind = "func" THEN it.ret ELSE it
         IN  IF v = Nil \/ AsErrorBag(v) = eb THEN <<>>
             ELSE IF AsErrorBag(v) = NoBag THEN <<v>>
             ELSE add(errs, eb, v, {}).out

RECURSIVE FoldedAll(_, _, _)
FoldedAll(eb, items, i) ==
    IF i > Len(items) THEN <<>> ELSE Folded(eb, items[i]) \o FoldedAll(eb, items, i + 1)

NotNil(v) == v # Nil
Results(ds) == SelectSeq([i \in DOMAIN ds |-> ds[i].ret], NotNil)

\* C6: after Return(extra...) the stored sequence is the one stored before,
\* then the folded extras in argument order, then the non-nil results of the
\* deferred callbacks in registration order; the extras are folded before
\* any deferred callback runs.
C6_ReturnAppendsExtrasThenDeferred ==
    (last.name = "Return" /\ last.end = "ok") =>
        /\ errs[last.eb] = last.pre \o FoldedAll(last.eb, last.items, 1)
                              \o Results(defers[last.eb])
        /\ last.calls = SelectSeq(last.calls, IsExtraCall)
                          \o SelectSeq(last.calls, IsDeferCall)

C6_Witness ==
    /\ last.name = "Return" /\ last.end = "ok"
    /\ Len(last.pre) > 0
    /\ Len(last.items) = 2
    /\ Folded(last.eb, last.items[1]) # <<>>
    /\ Folded(last.eb, last.items[2]) # <<>>
    /\ Folded(last.eb, last.items[1]) # Folded(last.eb, last.items[2])
    /\ Len(Results(defers[last.eb])) > 0
    /\ Range(Results(defers[last.eb])) \cap Range(FoldedAll(last.eb, last.items, 1)) = {}

\* C7: Merge(other) with other of different identity appends other's stored
\* errors, in their order, after the receiver's, and it changes nothing
\* when other is absent or is the receiver.
C7_MergeAppendsOthersErrors ==
    last.name = "Merge" =>
        LET oeb == AsErrorBag(last.err)
        IN  /\ status = "ok"
            /\ errs[last.eb] = last.pre \o
                  (IF oeb = NoBag \/ oeb = last.eb THEN <<>> ELSE errs[oeb])

\* C8: adding a collector to itself, seen directly or through any type that
\* embeds it, changes neither its stored sequence nor its Size.
C8_AddSelfChangesNothing ==
    (/\ last.name = "Add"
     /\ AsErrorBag(last.err) # NoBag
     /\ AsErrorBag(last.err) = last.eb
     /\ \A i \in DOMAIN last.items : last.items[i].kind = "bag"
     /\ \A i \in DOMAIN last.items : AsErrorBag(last.items[i]) = last.eb)
        => /\ errs[last.eb] = last.pre
           /\ last.end = "ok"

C8_Witness ==
    /\ last.name = "Add"
    /\ last.err = BagVal(last.eb, MaxDepth)
    /\ Len(last.items) > 0
    /\ Len(last.pre) > 1
    /\ AsErrorBag(last.pre[Len(last.pre)]) = last.eb
    /\ errs[last.eb] = last.pre

\* C9: an Add of a non-nil err grows Size by one when err is no collector
\* and by Size(err) when err is a collector of different identity, and
\* Errors() lists what was added after what was there, in order.
C9_SizeCountsAddedErrors ==
    (last.name = "Add" /\ last.err # Nil /\ last.items = <<>>) =>
        LET oeb == AsErrorBag(last.err)
            added == IF oeb = NoBag THEN <<last.err>>
                     ELSE IF oeb = last.eb THEN <<>> ELSE errs[oeb]
        IN  /\ status = "ok"
            /\ Len(errs[last.eb]) = Len(last.pre) + Len(added)
            /\ errs[last.eb] = last.pre \o added

\* C10: New(nil, extra...) returns an absent collector for every list of
\* extras and invokes none of the callbacks in them.
C10_NewNilIgnoresExtras ==
    (last.name = "New" /\ last.err = Nil) =>
        /\ last.ret = Nil
        /\ last.eb = NoBag
        /\ last.calls = <<>>

C10_Witness ==
    /\ last.name = "New" /\ last.err = Nil
    /\ \E i \in DOMAIN last.items :
          last.items[i].kind = "func" /\ last.items[i].ret # Nil
    /\ last.ret = Nil

\* The extras of TestNew: nil, an error, an ErrorFunc returning nil or an error.
IsTestExtra(it) ==
    \/ it.kind \in {"nil", "plain"}
    \/ it.kind = "func" /\ it.ret.kind \in {"nil", "plain"}

IsFunc(it) == it.kind = "func"

\* What one such extra leaves in the collector.
Kept(it) ==
    IF it.kind = "func" THEN (IF it.ret.kind = "nil" THEN <<>> ELSE <<it.ret>>)
    ELSE IF it.kind = "nil" THEN <<>> ELSE <<it>>

RECURSIVE KeptAll(_, _)
KeptAll(items, i) ==
    IF i > Len(items) THEN <<>> ELSE Kept(items[i]) \o KeptAll(items, i + 1)

\* C11: New(primary, extra...) with a non-nil primary that is no collector and
\* extras that are nil, errors, or callbacks returning nil or an error returns
\* a collector storing primary, then, in argument order, every non-nil error
\* extra and every non-nil callback result; each callback is invoked once,
\* at once, and nil extras add nothing.
C11_NewStoresPrimaryThenExtras ==
    (/\ last.name = "New"
     /\ last.err.kind \in {"plain", "tagged"}
     /\ \A i \in DOMAIN last.items : IsTestExtra(last.items[i]))
        => LET fs == SelectSeq(last.items, IsFunc)
           IN  /\ last.end = "ok"
               /\ last.eb # NoBag
               /\ last.ret = BagVal(last.eb, 0)
               /\ last.pre = <<>>
               /\ errs[last.eb] = <<last.err>> \o KeptAll(last.items, 1)
               /\ last.calls = [i \in DOMAIN fs |-> Call("extra", fs[i], fs[i].ret)]

C11_Witness ==
    /\ last.name = "New"
    /\ last.err.kind = "plain"
    /\ Len(last.items) = MaxExtras
    /\ last.items[1].kind = "func" /\ last.items[1].ret.kind = "plain"
    /\ last.items[1].ret # last.err
    /\ last.items[MaxExtras].kind = "plain"
    /\ last.items[MaxExtras] \notin {last.err, last.items[1].ret}
    /\ errs[last.eb] = <<last.err, last.items[1].ret, last.items[MaxExtras]>>
    /\ Len(last.calls) = 1

TakesExtras(name) == name \in {"New", "Add", "Return"}
HasJunk(items) == \E i \in DOMAIN items : items[i] = Junk
FirstJunk(items) ==
    CHOOSE i \in DOMAIN items : items[i] = Junk /\ \A j \in 1 .. i - 1 : items[j] # Junk

C13_ErrorOrNilIsCollectorOrNil ==
    (last.name \in {"ErrorOrNil", "Return"} /\ last.end = "ok") =>
        IF last.eb = NoBag \/ Len(errs[last.eb]) = 0
        THEN last.ret = Nil
        ELSE /\ last.ret # Nil
             /\ last.ret.kind = "bag"
             /\ last.ret.id = last.eb
             /\ last.ret.d = 0

C13_Witness ==
    /\ last.name = "ErrorOrNil"
    /\ last.rcv = 1
    /\ \E i \in DOMAIN dcount[1] : dcount[1][i] = 1 /\ defers[1][i].ret # Nil
    /\ Len(errs[1]) = 1
    /\ last.ret = BagVal(1, 0)

C15_SortedLeavesCollectorUnchanged ==
    (last.name = "Sorted" /\ last.end = "ok") => errs[last.eb] = last.pre

TextOf(err) == ErrText(errs, err, {}).text
Occurrences(l, v) == Cardinality({i \in DOMAIN l : l[i] = v})

\* l in non-decreasing order of text.
Ordered(l) ==
    \A i \in DOMAIN l : \A j \in DOMAIN l : i < j => ~TextLess(TextOf(l[j]), TextOf(l[i]))

\* The same errors, each as often, in l and m.
Permutation(l, m) ==
    /\ Len(l) = Len(m)
    /\ \A v \in Range(l) \cup Range(m) : Occurrences(l, v) = Occurrences(m, v)

RECURSIVE StableByText(_, _)
\* The errors of l whose text is in T, by text, those of one text in the
\* order they have in l.
StableByText(l, T) ==
    IF T = {} THEN <<>>
    ELSE LET t == CHOOSE u \in T : \A w \in T : ~TextLess(w, u)
             HasText(e) == TextOf(e) = t
         IN  SelectSeq(l, HasText) \o StableByText(l, T \ {t})

\* C16: Sorted() returns a permutation of the stored errors in non-decreasing
\* lexical order of their text, and errors of the same text keep their
\* relative insertion order.
C16_SortedIsStable ==
    (last.name = "Sorted" /\ last.end = "ok") =>
        /\ Permutation(last.ret, last.pre)
        /\ Ordered(last.ret)
        /\ last.ret = StableByText(last.pre, {TextOf(e) : e \in Range(last.pre)})

\* C17: the text of a collector is "" when it stores no error, the text of
\* its only error when it stores one, and "encountered N errors" when it
\* stores N > 1.
C17_ErrorText ==
    (last.name = "Error" /\ last.end = "ok") =>
        LET l == errs[last.eb]
        IN  /\ Len(l) = 0 => last.ret = EmptyText
            /\ Len(l) = 1 => last.ret = (IF l[1].kind \in {"plain", "tagged"}
                                         THEN Msg(l[1].id) ELSE TextOf(l[1]))
            /\ Len(l) > 1 => last.ret = Count(Len(l))

C17_Witness ==
    /\ last.name = "Error" /\ last.end = "ok"
    /\ Len(errs[last.eb]) = MaxStored
    /\ errs[last.eb][1] # errs[last.eb][MaxStored]
    /\ last.ret = Count(MaxStored)

\* What Add stores of one result of the wrapper.
StoredOf(eb, r) ==
    IF r = Nil \/ AsErrorBag(r) = eb THEN <<>>
    ELSE IF AsErrorBag(r) = NoBag THEN <<r>>
    ELSE errs[AsErrorBag(r)]

\* C18: with a wrapper installed, Wrap(err) of a non-nil err that is no
\* collector calls the wrapper once, on err, and adds its result: an error is
\* appended as one entry, the receiver itself is discarded, another collector
\* is flattened in, and Wrap(nil) stores nothing; the test's wrapper leaves
\* one tagged entry for a plain error and for a tagged one, none tagged twice.
C18_WrapAddsTransformedError ==
    (/\ last.name = "Wrap" /\ last.end = "ok"
     /\ wrapper[last.eb] # NoWrapper
     /\ AsErrorBag(last.err) = NoBag)
        => IF last.err = Nil
           THEN errs[last.eb] = last.pre /\ last.calls = <<>>
           ELSE /\ Len(last.calls) = 1
                /\ last.calls[1].src = "wrap"
                /\ last.calls[1].f = last.err
                /\ LET r == last.calls[1].ret
                       other == AsErrorBag(r)
                       new == SubSeq(errs[last.eb], Len(last.pre) + 1, Len(errs[last.eb]))
                   IN  /\ errs[last.eb] = last.pre \o new
                       /\ \A i \in DOMAIN new : AsErrorBag(new[i]) = NoBag
                       /\ (other = NoBag \/ \A i \in DOMAIN errs[other] :
                                                AsErrorBag(errs[other][i]) = NoBag)
                             => new = StoredOf(last.eb, r)
                       /\ wrapper[last.eb] = TagWrapper =>
                             new = <<Tagged(last.err.id)>>

C18_Witness ==
    /\ last.name = "Wrap" /\ last.end = "ok"
    /\ wrapper[last.eb] = TagWrapper
    /\ last.err = Tagged(NumErrs)
    /\ last.pre = <<Tagged(1)>>
    /\ errs[last.eb] = <<Tagged(1), Tagged(NumErrs)>>
    /\ Len(last.calls) = 1

RECURSIVE WrappedAll(_, _, _, _)
\* What wrapping the errors of list one by one, from the i-th on, stores in eb.
WrappedAll(eb, w, list, i) ==
    IF i > Len(list) THEN <<>>
    ELSE StoredOf(eb, WrapError(w, list[i])) \o WrappedAll(eb, w, list, i + 1)

\* C19: with a wrapper installed, Wrap(B) of a collector B of another
\* identity calls the wrapper once on each stored error of B, in B's order,
\* never on B, and appends the results to the receiver; Wrap of the
\* receiver itself changes nothing.
C19_WrapTransformsEachOfCollector ==
    (/\ last.name = "Wrap" /\ last.end = "ok"
     /\ wrapper[last.eb] # NoWrapper
     /\ AsErrorBag(last.err) # NoBag)
        => LET B == AsErrorBag(last.err)
               w == wrapper[last.eb]
           IN  IF B = last.eb
               THEN errs[last.eb] = last.pre /\ last.calls = <<>>
               ELSE /\ last.calls = [i \in DOMAIN errs[B] |->
                                        Call("wrap", errs[B][i], WrapError(w, errs[B][i]))]
                    /\ errs[last.eb] = last.pre \o WrappedAll(last.eb, w, errs[B], 1)

\* C20: with no wrapper installed, never or no longer, Wrap(err) of a
\* non-nil err (an error, a collector, the receiver itself) leaves the
\* collector as Add(err) does and returns what Add(err) returns.
C20_WrapWithoutWrapperIsAdd ==
    (last.name = "Wrap" /\ wrapper[last.eb] = NoWrapper /\ last.err # Nil) =>
        LET before == [errs EXCEPT ![last.eb] = last.pre]
            a == AddBody(before, last.eb, last.err, <<>>)
            after == [before EXCEPT ![last.eb] = @ \o a.out]
        IN  /\ last.end = a.end
            /\ errs = after
            /\ last.ret = (IF a.end = "ok" THEN ErrorOrNil(after, last.eb) ELSE Nil)
            /\ last.calls = <<>>

C20_Witness ==
    /\ last.name = "Wrap" /\ last.end = "ok"
    /\ last.eb = 1
    /\ wrapper[1] = NoWrapper
    /\ AsErrorBag(last.err) = 2
    /\ last.pre = <<>>
    /\ errs[1] = errs[2]
    /\ last.ret = BagVal(1, 0)

\* C21: Visit invokes the visitor once per stored error, in insertion order,
\* and the package-level Visit(err, fn) never invokes fn when err is nil or
\* does not reduce to a collector.
C21_VisitInInsertionOrder ==
    last.name = "Visit" =>
        IF last.eb = NoBag
        THEN last.calls = <<>>
        ELSE last.calls = [i \in DOMAIN inserted[last.eb] |->
                              Call("visit", inserted[last.eb][i], Nil)]

\* C22: Wrap returns its receiver, a non-nil value, in every case, whether
\* or not anything was stored: for nil, for the receiver itself, for another
\* collector, for an error, with or without a wrapper, and when the wrapper
\* returns nil.
C22_WrapReturnsReceiver ==
    (last.name = "Wrap" /\ last.end = "ok") => last.ret = BagVal(last.eb, 0)

C24_AddFoldsExtrasAfterErr ==
    last.name = "Add" =>
        LET fs == SelectSeq(last.items, IsFunc)
        IN  IF last.err = Nil
            THEN /\ last.end = "ok"
                 /\ last.calls = <<>>
                 /\ last.eb = last.rcv
                 /\ last.eb # NoBag => errs[last.eb] = last.pre
            ELSE last.end = "ok" =>
                 /\ errs[last.eb] = last.pre \o Folded(last.eb, last.err)
                                              \o FoldedAll(last.eb, last.items, 1)
                 /\ last.calls = [i \in DOMAIN fs |-> Call("extra", fs[i], fs[i].ret)]

C24_Witness ==
    /\ last.name = "Add"
    /\ last.err = Nil
    /\ last.rcv # NoBag
    /\ Len(last.items) = MaxExtras
    /\ last.items[1].kind = "func" /\ last.items[1].ret.kind = "plain"
    /\ last.items[MaxExtras].kind = "plain"
    /\ errs[last.eb] = <<>>
    /\ last.ret = Nil

\* C25, as claimed: what New returns is nil or a collector storing at least
\* one error, whatever primary and the extras are; a primary that is a
\* collector is returned itself, the extras folded into it.
C25_NewNeverEmpty ==
    (last.name = "New" /\ last.end = "ok") =>
        /\ last.ret = Nil \/ Len(errs[last.eb]) >= 1
        /\ AsErrorBag(last.err) # NoBag =>
              /\ last.ret = BagVal(AsErrorBag(last.err), 0)
              /\ errs[last.eb] = last.pre \o FoldedAll(last.eb, last.items, 1)

\* C25, amended: New returns nil exactly when primary is nil; for a primary
\* that is no collector it returns a new collector whose first stored error
\* is primary; a primary that is a collector is returned itself, the extras
\* folded into it, and stores nothing when it stored nothing before and the
\* extras contribute nothing.
C25_NewEmptyOnlyForEmptyCollector ==
    (last.name = "New" /\ last.end = "ok") =>
        /\ last.ret = Nil <=> last.err = Nil
        /\ (last.err # Nil /\ AsErrorBag(last.err) = NoBag) =>
              /\ last.ret = BagVal(last.eb, 0)
              /\ last.pre = <<>>
              /\ Len(errs[last.eb]) >= 1
              /\ errs[last.eb][1] = last.err
        /\ AsErrorBag(last.err) # NoBag =>
              /\ last.eb = AsErrorBag(last.err)
              /\ last.ret = BagVal(last.eb, 0)
              /\ errs[last.eb] = last.pre \o FoldedAll(last.eb, last.items, 1)

C25_Witness ==
    /\ last.name = "New" /\ last.end = "ok"
    /\ AsErrorBag(last.err) # NoBag
    /\ Len(last.items) > 0
    /\ last.ret = BagVal(AsErrorBag(last.err), 0)
    /\ errs[last.eb] = <<>>

\* C26: every call of Error(), Add, Merge, Wrap and Visit returns, on every
\* state the operations can reach, those made by Return with deferred
\* callbacks returning a collector included: no rendering and no merge
\* recurses without end.
C26_CallsTerminate ==
    last.name \in {"Error", "Add", "Merge", "Wrap", "Visit"} =>
        /\ last.end # "overflow"
        /\ status = "ok"

====
